---- MODULE Spec2Model ----
(***************************************************************************)
(* A model of src/Utility/utils.ts of ScriptOrchestrator: the definedness  *)
(* predicates, the function serializer and template wrapper, the script    *)
(* entry classifier and the asynchronous minifier adapter.                 *)
(*                                                                         *)
(* JavaScript values are tagged records; a text is a sequence of           *)
(* one-character strings (or of longer tokens for the fixed pieces of the  *)
(* wrapper template).                                                      *)
(***************************************************************************)
EXTENDS Integers, Sequences, FiniteSets, TLC

VARIABLES
    input,        \* the argument handed to the predicate layer
    predRet,      \* what each predicate returned for it: <<>> before the call
    scriptEntry,  \* the ScriptEntry handed to the classifier
    tagRet,       \* what each classifier returned for it
    clock,        \* the host's wall clock, in milliseconds
    wrapLog,      \* the completed calls of the template wrapper, in order
    pc,           \* per minifyCode call: "idle", "awaiting" or "done"
    frame,        \* per minifyCode call: its local variables (jsCode)
    service,      \* per minifyCode call: the state of minify's promise
    microtasks,   \* the host's queue of continuations ready to resume
    promise,      \* per minifyCode call: the state of the promise it returned
    overlapped    \* whether a minifyCode call began while another was suspended

predVars == <<input, predRet>>
tagVars  == <<scriptEntry, tagRet>>
wrapVars == <<clock, wrapLog>>
minVars  == <<pc, frame, service, microtasks, promise, overlapped>>
vars     == <<predVars, tagVars, wrapVars, minVars>>

\* ------------------------------------------------------------------ bounds
MaxLen == 2
MaxNum == 1
ClockStart == 8
MaxClock == 11
MaxWraps == 2
NCalls == 2

\* ------------------------------------------------------- JavaScript values
Chars == {" ", "a", "1"}

RECURSIVE TextsOfLen(_)
TextsOfLen(n) ==
    IF n = 0 THEN {<<>>}
    ELSE {Append(t, c) : t \in TextsOfLen(n - 1), c \in Chars}

Texts == UNION {TextsOfLen(n) : n \in 0..MaxLen}

JsValue(t, nan, n, s) == [t |-> t, nan |-> nan, n |-> n, s |-> s]

Undefined == JsValue("undefined", FALSE, 0, <<>>)
Null      == JsValue("null", FALSE, 0, <<>>)
NaN       == JsValue("number", TRUE, 0, <<>>)
Num(n)    == JsValue("number", FALSE, n, <<>>)
Str(s)    == JsValue("string", FALSE, 0, s)
Bool(b)   == JsValue("boolean", FALSE, IF b THEN 1 ELSE 0, <<>>)
\* a plain object; n tells objects apart
Obj(n)    == JsValue("object", FALSE, n, <<>>)
\* a callable; n is its identity, s its source text as authored
Fn(n, s)  == JsValue("function", FALSE, n, s)

FunctionIds == {1, 2}
SourceOf(n) == <<"function f", IF n = 1 THEN "1" ELSE "a", "(){}">>
Functions == {Fn(n, SourceOf(n)) : n \in FunctionIds}

Values ==
    {Undefined, Null, NaN, Obj(0), Bool(FALSE), Bool(TRUE)}
        \cup {Num(n) : n \in (0 - 1)..MaxNum}
        \cup {Str(s) : s \in Texts}
        \cup Functions

\* the typeof operator
TypeOf(v) == IF v.t = "null" THEN "object" ELSE v.t

\* Number.isNaN: no coercion, true of the NaN number only
NumberIsNaN(v) == v.t = "number" /\ v.nan

\* the global isNaN, which coerces its argument with ToNumber first
GlobalIsNaN(v) ==
    CASE v.t = "number"    -> v.nan
      [] v.t = "undefined" -> TRUE
      [] v.t = "null"      -> FALSE
      [] v.t = "boolean"   -> FALSE
      [] v.t = "string"    ->
            \/ \E i \in 1..Len(v.s) : v.s[i] = "a"
            \/ \E i, j, k \in 1..Len(v.s) :
                    i < j /\ j < k /\ v.s[i] # " " /\ v.s[j] = " " /\ v.s[k] # " "
      [] OTHER             -> TRUE

\* strict equality with a primitive; NaN equals nothing
StrictEquals(v, w) == v = w /\ ~v.nan /\ v.t \notin {"object", "function"}

\* ToBoolean
Truthy(v) ==
    CASE v.t = "undefined" -> FALSE
      [] v.t = "null"      -> FALSE
      [] v.t = "number"    -> ~v.nan /\ v.n # 0
      [] v.t = "string"    -> v.s # <<>>
      [] v.t = "boolean"   -> v.n = 1
      [] OTHER             -> TRUE

\* ---------------------------------------------------------- predicate layer
isElementNotDefinedCoercing(element) ==
    StrictEquals(element, Undefined) \/ StrictEquals(element, Null)
        \/ GlobalIsNaN(element) \/ StrictEquals(element, Str(<<>>))

isElementNotDefined(element) ==
    LET isUndefined   == StrictEquals(element, Undefined)
        isNull        == StrictEquals(element, Null)
        isNaN         == NumberIsNaN(element)
        isEmptyString == StrictEquals(element, Str(<<>>))
    IN  isUndefined \/ isNull \/ isNaN \/ isEmptyString

isDefinedStringUnguarded(element) == TypeOf(element) = "string"

isDefinedString(element) ==
    ~isElementNotDefined(element) /\ TypeOf(element) = "string"

isFunction(element) ==
    ~isElementNotDefined(element) /\ TypeOf(element) = "function"

\* -------------------------------------------------- script entry classifier
Fields == {"src", "inlineCode"}

\* a ScriptEntry: both fields are optional
Entries == UNION {[D -> Values] : D \in SUBSET Fields}

\* the parameter pattern { src }: a missing property destructures to undefined
Destructure(entry, field) ==
    IF field \in DOMAIN entry THEN entry[field] ELSE Undefined

isExternalScriptTagExclusive(entry) ==
    ~isElementNotDefined(Destructure(entry, "src"))
        /\ isElementNotDefined(Destructure(entry, "inlineCode"))

isExternalScriptTag(entry) ==
    LET src == Destructure(entry, "src") IN ~isElementNotDefined(src)

isInlineScriptTag(entry) ==
    LET inlineCode == Destructure(entry, "inlineCode")
    IN  ~isElementNotDefined(inlineCode)

\* ------------------------------------------ function serializer and wrapper
\* how a call ends: with a value, or with a thrown error
Normal(v) == [threw |-> FALSE, value |-> v]
Throw(v)  == [threw |-> TRUE, value |-> v]

TypeError == JsValue("object", FALSE, 0, <<"TypeError">>)

DigitChar(d) ==
    CASE d = 0 -> "0" [] d = 1 -> "1" [] d = 2 -> "2" [] d = 3 -> "3"
      [] d = 4 -> "4" [] d = 5 -> "5" [] d = 6 -> "6" [] d = 7 -> "7"
      [] d = 8 -> "8" [] d = 9 -> "9"

\* Number::toString of a non-negative integer, as ${...} interpolates it
RECURSIVE NumberToString(_)
NumberToString(n) ==
    IF n < 10 THEN <<DigitChar(n)>>
    ELSE Append(NumberToString(n \div 10), DigitChar(n % 10))

\* String(element): every value has a text, nothing is thrown
stringifyFunctionCoercing(element) ==
    Normal(Str(IF TypeOf(element) = "function" THEN element.s
               ELSE <<"[", TypeOf(element), "]">>))

\* Function.prototype.toString.call(element): the source text of a callable,
\* a TypeError for every other value
stringifyFunction(element) ==
    IF TypeOf(element) = "function"
    THEN Normal(Str(element.s))
    ELSE Throw(TypeError)

variableIdentifierPerSecond(now) ==
    <<"scrp_orch_">> \o NumberToString(now \div 10)

\* `scrp_orch_${Date.now()}`
variableIdentifier(now) == <<"scrp_orch_">> \o NumberToString(now)

functionCodeUnguardedTwice(id, functionString) ==
    <<"\n        let ">> \o id \o <<" = ">> \o functionString
        \o <<";\n        ">> \o id \o <<"();\n        ">>
        \o id \o <<"?.();\n    ">>

\* the template literal of lines 51-54
functionCode(id, functionString) ==
    <<"\n        let ">> \o id \o <<" = ">> \o functionString
        \o <<";\n        ">> \o id \o <<"?.();\n    ">>

\* now is what Date.now() reads during the call
wrapFunctionOverTemplateCodeAndStringify(element, now) ==
    LET functionString == stringifyFunction(element)
    IN  IF functionString.threw THEN functionString
        ELSE Normal(Str(functionCode(variableIdentifier(now),
                                     functionString.value.s)))

\* ----------------------------------------------------------- minifier adapter
Calls == 1..NCalls

\* the texts handed to minifyCode
InputTexts == {<<>>, <<"a">>}

\* what minify's promise is fulfilled with: an object whose code is a text or
\* is missing, or (obj = FALSE) no object at all
ServiceResults ==
    {[obj |-> TRUE, code |-> v] :
        v \in {Undefined, Str(<<>>), Str(<<"a">>), Str(<<"m">>)}}
        \cup {[obj |-> FALSE, code |-> Undefined]}

ServiceError == JsValue("object", FALSE, 0, <<"Error">>)

NoResult == [obj |-> FALSE, code |-> Undefined]

\* a ?? b
NullishOr(a, b) == IF a.t \in {"undefined", "null"} THEN b ELSE a

\* a || b
LogicalOr(a, b) == IF Truthy(a) THEN a ELSE b

\* result.code; reading a property of undefined throws
CodeOf(result) ==
    IF result.obj THEN Normal(result.code) ELSE Throw(TypeError)

\* the try block, resumed with how `await minify(jsCode)` ended
tryBlock(jsCodeArg, awaited) ==
    IF awaited.threw THEN awaited
    ELSE LET code == CodeOf(awaited.value)
         IN  IF code.threw THEN code
             ELSE Normal(LogicalOr(code.value, Str(jsCodeArg)))

minifyCodeNoCatch(jsCodeArg, awaited) == tryBlock(jsCodeArg, awaited)

\* try { ... } catch (e) { return jsCode; }
minifyCode(jsCodeArg, awaited) ==
    LET tried == tryBlock(jsCodeArg, awaited)
    IN  IF tried.threw THEN Normal(Str(jsCodeArg)) ELSE tried

\* how the promise of an async function settles when its body ends
Settle(completion) ==
    [state |-> IF completion.threw THEN "rejected" ELSE "fulfilled",
     value |-> completion.value]

jsCodeShared(c) ==
    frame[CHOOSE d \in Calls :
              pc[d] # "idle" /\ \A e \in Calls : pc[e] # "idle" => e <= d].jsCode

\* the jsCode the continuation of call c closes over
jsCode(c) == frame[c].jsCode

\* what call c's await yields once minify's promise has settled
Awaited(c) ==
    IF service[c].state = "rejected" THEN Throw(ServiceError)
    ELSE Normal(service[c].result)

\* minifyCode(text) is called and minify throws before returning a promise
MinifyCallThrows(c) ==
    /\ pc[c] = "idle"
    /\ \E text \in InputTexts :
          /\ frame' = [frame EXCEPT ![c] = [jsCode |-> text]]
          /\ promise' = [promise EXCEPT ![c] =
                            Settle(minifyCode(text, Throw(ServiceError)))]
    /\ service' = [service EXCEPT ![c] = [state |-> "threw", result |-> NoResult]]
    /\ pc' = [pc EXCEPT ![c] = "done"]
    /\ overlapped' = (overlapped \/ \E d \in Calls : pc[d] = "awaiting")
    /\ UNCHANGED <<microtasks, predVars, tagVars, wrapVars>>

\* minifyCode(text) is called, minify returns a promise and the call suspends
MinifyCallAwaits(c) ==
    /\ pc[c] = "idle"
    /\ \E text \in InputTexts :
          frame' = [frame EXCEPT ![c] = [jsCode |-> text]]
    /\ service' = [service EXCEPT ![c] = [state |-> "pending", result |-> NoResult]]
    /\ promise' = [promise EXCEPT ![c] = [state |-> "pending", value |-> Undefined]]
    /\ pc' = [pc EXCEPT ![c] = "awaiting"]
    /\ overlapped' = (overlapped \/ \E d \in Calls : pc[d] = "awaiting")
    /\ UNCHANGED <<microtasks, predVars, tagVars, wrapVars>>

\* the service fulfils the promise call c awaits
ServiceFulfil(c) ==
    /\ service[c].state = "pending"
    /\ \E result \in ServiceResults :
          service' = [service EXCEPT ![c] =
                          [state |-> "fulfilled", result |-> result]]
    /\ microtasks' = Append(microtasks, c)
    /\ UNCHANGED <<pc, frame, promise, overlapped, predVars, tagVars, wrapVars>>

\* the service rejects the promise call c awaits
ServiceReject(c) ==
    /\ service[c].state = "pending"
    /\ service' = [service EXCEPT ![c] =
                      [state |-> "rejected", result |-> NoResult]]
    /\ microtasks' = Append(microtasks, c)
    /\ UNCHANGED <<pc, frame, promise, overlapped, predVars, tagVars, wrapVars>>

\* the host resumes the continuation at the head of the queue
MinifyResume ==
    /\ microtasks # <<>>
    /\ LET c == Head(microtasks)
       IN  /\ promise' = [promise EXCEPT ![c] =
                              Settle(minifyCode(jsCode(c), Awaited(c)))]
           /\ pc' = [pc EXCEPT ![c] = "done"]
    /\ microtasks' = Tail(microtasks)
    /\ UNCHANGED <<frame, service, overlapped, predVars, tagVars, wrapVars>>

RestMin ==
    /\ pc = [c \in Calls |-> "idle"]
    /\ frame = [c \in Calls |-> [jsCode |-> <<>>]]
    /\ service = [c \in Calls |-> [state |-> "none", result |-> NoResult]]
    /\ microtasks = <<>>
    /\ promise = [c \in Calls |-> [state |-> "none", value |-> Undefined]]
    /\ overlapped = FALSE

\* ------------------------------------------- the predicates, applied to input
Predicates == {"isElementNotDefined", "isDefinedString", "isFunction"}

Classifiers == {"isExternalScriptTag", "isInlineScriptTag"}

\* the parts of the state a specification does not exercise stay at rest
RestPred == input = Undefined /\ predRet = [p \in Predicates |-> <<>>]
RestTag  == scriptEntry = <<>> /\ tagRet = [k \in Classifiers |-> <<>>]

InitPred ==
    /\ input \in Values
    /\ predRet = [p \in Predicates |-> <<>>]

InitTag ==
    /\ scriptEntry \in Entries
    /\ tagRet = [k \in Classifiers |-> <<>>]

CallIsElementNotDefined ==
    /\ predRet' = [predRet EXCEPT !["isElementNotDefined"] =
                        <<isElementNotDefined(input)>>]
    /\ UNCHANGED <<input, tagVars, wrapVars, minVars>>

CallIsDefinedString ==
    /\ predRet' = [predRet EXCEPT !["isDefinedString"] =
                        <<isDefinedString(input)>>]
    /\ UNCHANGED <<input, tagVars, wrapVars, minVars>>

CallIsFunction ==
    /\ predRet' = [predRet EXCEPT !["isFunction"] = <<isFunction(input)>>]
    /\ UNCHANGED <<input, tagVars, wrapVars, minVars>>

CallIsExternalScriptTag ==
    /\ tagRet' = [tagRet EXCEPT !["isExternalScriptTag"] =
                        <<isExternalScriptTag(scriptEntry)>>]
    /\ UNCHANGED <<scriptEntry, predVars, wrapVars, minVars>>

CallIsInlineScriptTag ==
    /\ tagRet' = [tagRet EXCEPT !["isInlineScriptTag"] =
                        <<isInlineScriptTag(scriptEntry)>>]
    /\ UNCHANGED <<scriptEntry, predVars, wrapVars, minVars>>

\* the host clock moves on
Tick ==
    /\ clock < MaxClock
    /\ clock' = clock + 1
    /\ UNCHANGED <<wrapLog, predVars, tagVars, minVars>>

\* one call of the wrapper, with any value at all as its argument
Wrap ==
    /\ Len(wrapLog) < MaxWraps
    /\ \E element \in Values :
          wrapLog' = Append(wrapLog,
              [element |-> element, now |-> clock,
               completion |->
                   wrapFunctionOverTemplateCodeAndStringify(element, clock)])
    /\ UNCHANGED <<clock, predVars, tagVars, minVars>>

RestWrap == clock = ClockStart /\ wrapLog = <<>>

\* ---------------------------------------------------------- specifications
InitPredicates == InitPred /\ RestTag /\ RestWrap /\ RestMin

NextPredicates ==
    CallIsElementNotDefined \/ CallIsDefinedString \/ CallIsFunction

SpecPredicates == InitPredicates /\ [][NextPredicates]_vars

InitClassifier == RestPred /\ InitTag /\ RestWrap /\ RestMin

NextClassifier == CallIsExternalScriptTag \/ CallIsInlineScriptTag

SpecClassifier == InitClassifier /\ [][NextClassifier]_vars

InitMinifier == RestPred /\ RestTag /\ RestWrap /\ RestMin

NextMinifier ==
    \/ \E c \in Calls : MinifyCallThrows(c)
    \/ \E c \in Calls : MinifyCallAwaits(c)
    \/ \E c \in Calls : ServiceFulfil(c)
    \/ \E c \in Calls : ServiceReject(c)
    \/ MinifyResume

SpecMinifier == InitMinifier /\ [][NextMinifier]_vars

\* the service settles every promise it handed out, and the host runs every
\* continuation that is ready
FairSpecMinifier ==
    /\ SpecMinifier
    /\ \A c \in Calls : WF_vars(ServiceFulfil(c) \/ ServiceReject(c))
    /\ WF_vars(MinifyResume)

Init == RestPred /\ RestTag /\ RestWrap /\ RestMin

Next == Tick \/ Wrap

\* the template wrapper under a running clock
Spec == Init /\ [][Next]_vars

\* =================================================================== claims

\* ------------------------------------------------ reading a wrapped text back
LetToken   == "\n        let "
EqToken    == " = "
EndToken   == ";\n        "
GuardedCallToken == "?.();\n    "
CallTokens == {GuardedCallToken, "();\n        "}

Count(text, token) == Cardinality({i \in DOMAIN text : text[i] = token})

IndexOf(text, token) ==
    IF Count(text, token) = 0 THEN 0
    ELSE CHOOSE i \in DOMAIN text :
            text[i] = token /\ \A j \in 1..(i - 1) : text[j] # token

\* the name the text declares
DeclaredName(text) == SubSeq(text, 2, IndexOf(text, EqToken) - 1)

\* the initializer of the declaration
DeclaredSource(text) ==
    SubSeq(text, IndexOf(text, EqToken) + 1, IndexOf(text, EndToken) - 1)

\* the identifier a call at position i of the text applies to
CalleeAt(text, i) ==
    LET before == {j \in 1..(i - 1) : text[j] \in CallTokens \cup {EndToken}}
        from   == CHOOSE j \in before : \A k \in before : k <= j
    IN  SubSeq(text, from + 1, i - 1)

\* the positions at which running the text calls the declared binding
CallsOfBinding(text) ==
    {i \in DOMAIN text :
        /\ text[i] \in CallTokens
        /\ i > IndexOf(text, EndToken)
        /\ IndexOf(text, EndToken) > 0
        /\ CalleeAt(text, i) = DeclaredName(text)}

\* the identities of the functions that running the text invokes, one per call
Invocations(text) ==
    LET bound == {f \in Functions : f.s = DeclaredSource(text)}
    IN  IF bound = {} THEN <<>>
        ELSE [k \in 1..Cardinality(CallsOfBinding(text)) |->
                 (CHOOSE f \in bound : TRUE).n]

DigitChars == {"0", "1", "2", "3", "4", "5", "6", "7", "8", "9"}

DigitValue(ch) == CHOOSE d \in 0..9 : DigitChar(d) = ch

RECURSIVE DecimalValue(_)
DecimalValue(digits) ==
    IF digits = <<>> THEN 0
    ELSE 10 * DecimalValue(SubSeq(digits, 1, Len(digits) - 1))
            + DigitValue(digits[Len(digits)])

Returned(call) == ~call.completion.threw

\* C1 (as stated): the wrapper never throws; every call, whatever its
\* argument, returns a text.
C1_NeverThrows ==
    \A i \in DOMAIN wrapLog :
        /\ ~wrapLog[i].completion.threw
        /\ wrapLog[i].completion.value.t = "string"

\* C1 (amended): the wrapper returns a text exactly when its argument is
\* callable; for every other argument the serializer's TypeError leaves the
\* wrapper and no text is produced.
C1_ThrowsIffNotCallable ==
    \A i \in DOMAIN wrapLog :
        LET call == wrapLog[i] IN
        /\ call.completion.threw <=> call.element.t # "function"
        /\ call.completion.threw => call.completion.value = TypeError
        /\ ~call.completion.threw => call.completion.value.t = "string"

C1_Witness ==
    \E i \in DOMAIN wrapLog :
        /\ wrapLog[i].element = Num(0)
        /\ wrapLog[i].completion = Throw(TypeError)

C6_NamesDifferIffClockDiffers ==
    \A i, j \in DOMAIN wrapLog :
        (i # j /\ Returned(wrapLog[i]) /\ Returned(wrapLog[j])) =>
            (DeclaredName(wrapLog[i].completion.value.s)
                = DeclaredName(wrapLog[j].completion.value.s)
             <=> wrapLog[i].now = wrapLog[j].now)

C6_Witness ==
    \E i, j \in DOMAIN wrapLog :
        /\ i < j
        /\ Returned(wrapLog[i]) /\ Returned(wrapLog[j])
        /\ wrapLog[i].element # wrapLog[j].element
        /\ wrapLog[i].now = wrapLog[j].now
        /\ DeclaredName(wrapLog[i].completion.value.s)
             = DeclaredName(wrapLog[j].completion.value.s)

\* ------------------------------------------------------ the predicate layer
Absent == {Undefined, Null, NaN, Str(<<>>)}

Called(ret, name) == ret[name] # <<>>

C7_TypeGuards ==
    /\ Called(predRet, "isDefinedString") =>
          /\ predRet["isDefinedString"][1]
                <=> (input.t = "string" /\ input.s # <<>>)
          /\ Called(predRet, "isElementNotDefined") =>
                (predRet["isDefinedString"][1]
                    <=> (~predRet["isElementNotDefined"][1]
                            /\ input.t = "string"))
    /\ Called(predRet, "isFunction") =>
          /\ predRet["isFunction"][1] <=> input \in Functions
          /\ Called(predRet, "isElementNotDefined") =>
                (predRet["isFunction"][1]
                    <=> (~predRet["isElementNotDefined"][1]
                            /\ input.t = "function"))
    /\ ~(predRet["isDefinedString"] = <<TRUE>>
            /\ predRet["isFunction"] = <<TRUE>>)

C7_Witness ==
    /\ input = Str(<<"a">>)
    /\ predRet["isElementNotDefined"] = <<FALSE>>
    /\ predRet["isDefinedString"] = <<TRUE>>
    /\ predRet["isFunction"] = <<FALSE>>

\* ------------------------------------------------- the script entry classifier
Has(entry, field) == field \in DOMAIN entry /\ entry[field] \notin Absent

\* C8: isExternalScriptTag depends on the definedness of src alone and
\* isInlineScriptTag on that of inlineCode alone; an entry may be both,
\* either or neither.
C8_ClassifiersIndependent ==
    /\ Called(tagRet, "isExternalScriptTag") =>
          tagRet["isExternalScriptTag"][1] <=> Has(scriptEntry, "src")
    /\ Called(tagRet, "isInlineScriptTag") =>
          tagRet["isInlineScriptTag"][1] <=> Has(scriptEntry, "inlineCode")
    /\ (scriptEntry = [src |-> Str(<<"a">>)]
            /\ Called(tagRet, "isExternalScriptTag")
            /\ Called(tagRet, "isInlineScriptTag"))
          => tagRet = [isExternalScriptTag |-> <<TRUE>>,
                       isInlineScriptTag |-> <<FALSE>>]
    /\ (scriptEntry = [inlineCode |-> Str(<<"a", "1">>)]
            /\ Called(tagRet, "isExternalScriptTag")
            /\ Called(tagRet, "isInlineScriptTag"))
          => tagRet = [isExternalScriptTag |-> <<FALSE>>,
                       isInlineScriptTag |-> <<TRUE>>]

C8_Witness ==
    /\ scriptEntry = [src |-> Str(<<"a">>), inlineCode |-> Str(<<"a", "1">>)]
    /\ tagRet = [isExternalScriptTag |-> <<TRUE>>,
                 isInlineScriptTag |-> <<TRUE>>]

\* ---------------------------------------------------------- the minifier adapter
Done(c) == pc[c] = "done"

ServiceRaised(c) == service[c].state \in {"threw", "rejected"}

\* the service's code, when it is a non-empty text
ServiceCode(c) ==
    IF /\ service[c].state = "fulfilled"
       /\ service[c].result.obj
       /\ service[c].result.code.t = "string"
       /\ service[c].result.code.s # <<>>
    THEN {service[c].result.code}
    ELSE {}

Original(c) == [state |-> "fulfilled", value |-> Str(frame[c].jsCode)]

\* C2: when the service raises, before or after the await, the call completes
\* normally and its result is the original input text.
C2_FailureFallsBack ==
    \A c \in Calls : (Done(c) /\ ServiceRaised(c)) => promise[c] = Original(c)

C2_Witness ==
    \E c \in Calls :
        /\ Done(c)
        /\ service[c].state = "rejected"
        /\ frame[c].jsCode = <<"a">>
        /\ promise[c] = Original(c)

\* C3: when the service succeeds the result is its code if that is a
\* non-empty text and the original input otherwise; whatever the service
\* does, the result is one of the two.
C3_CodeOrOriginal ==
    \A c \in Calls :
        Done(c) =>
          /\ promise[c].state = "fulfilled"
          /\ (service[c].state = "fulfilled" /\ service[c].result.obj) =>
                promise[c].value =
                    IF ServiceCode(c) # {} THEN service[c].result.code
                    ELSE Str(frame[c].jsCode)
          /\ promise[c].value \in ServiceCode(c) \cup {Str(frame[c].jsCode)}

C3_Witness ==
    \E c, d \in Calls :
        /\ Done(c) /\ Done(d)
        /\ frame[c].jsCode = <<"a">>
        /\ service[c].state = "fulfilled"
        /\ service[c].result = [obj |-> TRUE, code |-> Str(<<>>)]
        /\ promise[c].value = Str(<<"a">>)
        /\ service[d].state = "fulfilled"
        /\ frame[d].jsCode = <<>>
        /\ promise[d].value = Str(<<"m">>)

\* C9: every call suspended at the await completes once the service settles,
\* with a text, and no call ever ends rejected.
C9_EveryCallCompletes ==
    /\ \A c \in Calls :
          pc[c] = "awaiting" ~>
              (Done(c) /\ promise[c].state = "fulfilled"
                  /\ promise[c].value.t = "string")
    /\ [](\A c \in Calls : promise[c].state # "rejected")

C9_Witness ==
    \E c \in Calls :
        /\ Done(c)
        /\ service[c].state \in {"fulfilled", "rejected"}
        /\ promise[c].state = "fulfilled"
        /\ promise[c].value.t = "string"

\* C10: with several calls in flight and settled in any order, each call
\* returns its own service code or its own input, never another call's.
C10_CallsAreIsolated ==
    \A c \in Calls :
        Done(c) =>
            \/ promise[c].value = Str(frame[c].jsCode)
            \/ /\ service[c].state = "fulfilled"
               /\ promise[c].value = service[c].result.code

C10_Witness ==
    /\ Done(1) /\ Done(2)
    /\ overlapped
    /\ frame[1].jsCode = <<"a">> /\ frame[2].jsCode = <<>>
    /\ service[1].state = "rejected"
    /\ promise[1].value = Str(<<"a">>)
    /\ service[2].result = [obj |-> TRUE, code |-> Str(<<"m">>)]
    /\ promise[2].value = Str(<<"m">>)

====
